---- MODULE Spec2Model ----
(***************************************************************************)
(* The report scripts of scripts/implement-mock-replacement.js (the mock    *)
(* replacement, data access and repository pattern analyses) as a state     *)
(* machine.  JavaScript strings are TLA+ strings handled character by       *)
(* character; a file tree is a sequence of files in grep's traversal order. *)
(***************************************************************************)
EXTENDS Integers, Sequences, FiniteSets, TLC

(***************************************************************************)
(* Bounds of the model.                                                     *)
(***************************************************************************)
\* the largest number of files in the scanned tree
MaxFiles == 3

(***************************************************************************)
(* JavaScript string primitives.                                            *)
(***************************************************************************)
\* String.prototype.includes
Includes(s, t) ==
  \E i \in 1..(Len(s) - Len(t) + 1) : SubSeq(s, i, i + Len(t) - 1) = t

\* String.prototype.endsWith (the --include globs "*.ts" ... of grep)
EndsWith(s, t) ==
  Len(s) >= Len(t) /\ SubSeq(s, Len(s) - Len(t) + 1, Len(s)) = t

\* String.prototype.indexOf for a one-character needle searched from
\* position i on, 1-based, 0 if absent
RECURSIVE IndexFrom(_, _, _)
IndexFrom(s, c, i) ==
  IF i > Len(s) THEN 0
  ELSE IF SubSeq(s, i, i) = c THEN i
  ELSE IndexFrom(s, c, i + 1)

IndexOf(s, c) == IndexFrom(s, c, 1)

\* String.prototype.split with a one-character separator
RECURSIVE Split(_, _)
Split(s, sep) ==
  LET i == IndexOf(s, sep)
  IN IF i = 0 THEN <<s>>
     ELSE <<SubSeq(s, 1, i - 1)>> \o Split(SubSeq(s, i + 1, Len(s)), sep)

\* Array.prototype.join
RECURSIVE Join(_, _)
Join(parts, sep) ==
  IF Len(parts) = 0 THEN ""
  ELSE IF Len(parts) = 1 THEN parts[1]
  ELSE parts[1] \o sep \o Join(Tail(parts), sep)

\* Array.prototype.filter(Boolean) on an array of strings
RECURSIVE FilterBoolean(_)
FilterBoolean(parts) ==
  IF Len(parts) = 0 THEN <<>>
  ELSE IF Head(parts) = "" THEN FilterBoolean(Tail(parts))
  ELSE <<Head(parts)>> \o FilterBoolean(Tail(parts))

UpperLetters == "ABCDEFGHIJKLMNOPQRSTUVWXYZ"
LowerLetters == "abcdefghijklmnopqrstuvwxyz"

\* the characters toLowerCase changes
UpperSet == { SubSeq(UpperLetters, i, i) : i \in 1..Len(UpperLetters) }

\* one character of String.prototype.toLowerCase
LowerChar(c) ==
  IF c \notin UpperSet THEN c
  ELSE LET i == IndexOf(UpperLetters, c)
       IN SubSeq(LowerLetters, i, i)

\* one character of String.prototype.toUpperCase
UpperChar(c) ==
  LET i == IndexOf(LowerLetters, c)
  IN IF i = 0 THEN c ELSE SubSeq(UpperLetters, i, i)

\* String.prototype.toLowerCase
RECURSIVE ToLowerCase(_)
ToLowerCase(s) ==
  IF Len(s) = 0 THEN ""
  ELSE LowerChar(SubSeq(s, 1, 1)) \o ToLowerCase(SubSeq(s, 2, Len(s)))

\* module.charAt(0).toUpperCase() + module.slice(1)
Capitalize(s) ==
  IF Len(s) = 0 THEN "" ELSE UpperChar(SubSeq(s, 1, 1)) \o SubSeq(s, 2, Len(s))

(***************************************************************************)
(* Configuration of the mock replacement script.                            *)
(***************************************************************************)
\* the elements of a sequence
Range(f) == { f[i] : i \in DOMAIN f }

MOCK_PATTERNS ==
  << "mock", "fake", "dummy", "placeholder", "sample data", "test data",
     "staticData", "mockData", "MOCK_" >>

\* s with its first k elements moved to the end
Rotate(s, k) == SubSeq(s, k + 1, Len(s)) \o SubSeq(s, 1, k)

\* s back to front
Reverse(s) == [i \in 1..Len(s) |-> s[Len(s) + 1 - i]]

\* The orderings of the pattern list the scan is run with: the configured
\* one, the same list back to front, and the list with its first pattern last.
PatternOrders ==
  { MOCK_PATTERNS, Reverse(MOCK_PATTERNS), Rotate(MOCK_PATTERNS, 1) }

(***************************************************************************)
(* The scanned tree: files with their path under the working directory and  *)
(* their lines of text, in the order grep visits them.                      *)
(***************************************************************************)
MockFiles ==
  { [path |-> "/src/auth/a.ts",   text |-> << "mockData", "fake: x" >>],
    [path |-> "/lib/b.js",        text |-> << "fake", "fake" >>],
    [path |-> "/src/auth/c.tsx",  text |-> << "MOCK_mock", "mockDatabase" >>],
    [path |-> "/src/latest/d.ts", text |-> << "mock" >>],
    [path |-> "/src/ui/e.jsx",    text |-> << "real" >>],
    [path |-> "/docs/f.md",       text |-> << "mock" >>] }

\* the sequences of at most n distinct files of a universe
TreesOver(files, n) ==
  UNION { { t \in [1..k -> files] : \A i, j \in 1..k : i # j => t[i] # t[j] }
          : k \in 0..n }

VARIABLES
  script,            \* which of the three report scripts this run is
  tree,              \* the file tree under the working directory
  denied,            \* index in tree of a file grep cannot read, 0 if none
  patterns,          \* the pattern list the mock scan iterates
  cwdGone,           \* whether process.cwd() has started to throw
  pc,                \* position of main
  pIdx,              \* index of the pattern (schema, module) being searched
  lines,             \* lines of the current grep output not yet processed
  rawLines,          \* history: every grep line processed so far, in order,
                     \* with the pattern (schema, module) searched for
  errors,            \* the searches whose error was logged, in order
  results,           \* findMockUsage's results array
  directAccessResults, \* the result object of the other two scans, in key order
  mockUsageByModule, \* categorizeMockUsageByModule's object, in key order
  reportContent,     \* the rendered report, a sequence of chunks
  reportFile,        \* the report file on disk
  writes,            \* number of fs.writeFileSync calls made
  exitCode,          \* -1 while running, then the process exit status
  first,             \* what an earlier run of the script on this tree
                     \* produced, NoRun when there was none
  remote,            \* the names of the labels the GitHub repository has
  calls,             \* the gh label calls issued for the label last
                     \* handed to createOrUpdateLabel, with their outcome
  failures,          \* number of gh calls that failed for another reason
                     \* than the label being there or not
  processed          \* the labels createOrUpdateLabel was called with

\* the state of the label script
ghVars == << remote, calls, failures, processed >>

\* what no step of a run of a report script changes
env == << script, tree, denied, patterns, first, ghVars >>

\* the state of the scan
scanVars == << pIdx, lines, rawLines, errors, results, directAccessResults >>

\* the state main builds from the scan's result
outVars == << mockUsageByModule, reportContent, reportFile, writes, exitCode >>

vars == << env, cwdGone, pc, scanVars, outVars >>

(***************************************************************************)
(* grep -r "<pattern>" --include=... --exclude-dir="node_modules" .         *)
(***************************************************************************)
\* the files grep opens: the four --include globs
GrepIncluded(path) ==
  \/ EndsWith(path, ".ts") \/ EndsWith(path, ".tsx")
  \/ EndsWith(path, ".js") \/ EndsWith(path, ".jsx")

\* --exclude-dir="node_modules"
GrepExcludedDir(path) == Includes(path, "/node_modules/")

\* the lines of file i of the tree t, from line k on
RECURSIVE FileLines(_, _, _)
FileLines(t, i, k) ==
  IF k > Len(t[i].text) THEN <<>>
  ELSE << [file |-> i, path |-> t[i].path, text |-> t[i].text[k]] >>
       \o FileLines(t, i, k + 1)

\* every line of the tree t from file i on, in traversal order
RECURSIVE TreeLines(_, _)
TreeLines(t, i) ==
  IF i > Len(t) THEN <<>> ELSE FileLines(t, i, 1) \o TreeLines(t, i + 1)

\* grep's standard output for the selected lines: "<root><path>:<text>\n" each
RECURSIVE PrintLines(_, _)
PrintLines(ls, root) ==
  IF Len(ls) = 0 THEN ""
  ELSE root \o Head(ls).path \o ":" \o Head(ls).text \o "\n"
       \o PrintLines(Tail(ls), root)

\* grep's standard output over the tree t, file number d unreadable
GrepOutput(t, d, pattern) ==
  PrintLines(SelectSeq(TreeLines(t, 1),
               LAMBDA l : /\ GrepIncluded(l.path) /\ ~GrepExcludedDir(l.path)
                          /\ l.file # d
                          /\ Includes(l.text, pattern)), ".")

\* grep's exit status: 2 if an error occurred, else 1 if no line was selected
GrepStatus(t, d, pattern) ==
  IF d # 0 /\ GrepIncluded(t[d].path) /\ ~GrepExcludedDir(t[d].path) THEN 2
  ELSE IF GrepOutput(t, d, pattern) = "" THEN 1
  ELSE 0

\* output.split('\n').filter(Boolean)
OutputLines(output) == FilterBoolean(Split(output, "\n"))

\* the lines ls as raw matches of the search for pattern
RawMatches(ls, pattern) ==
  [i \in 1..Len(ls) |-> [line |-> ls[i], pattern |-> pattern]]

(***************************************************************************)
(* findMockUsage                                                            *)
(***************************************************************************)
\* line.split(':'), parts[0], parts.slice(1).join(':')
ParseLine(line) ==
  LET parts == Split(line, ":")
  IN [filepath |-> parts[1], context |-> Join(Tail(parts), ":")]

\* Skipped with a case-sensitive test of the context
Skipped_CaseSensitive(filepath, context) ==
  \/ Includes(filepath, "test") \/ Includes(filepath, "__tests__")
     \/ Includes(filepath, "spec")
  \/ Includes(filepath, "node_modules")
  \/ Includes(context, "database")

\* the three early returns of the line callback
Skipped(filepath, context) ==
  \/ Includes(filepath, "test") \/ Includes(filepath, "__tests__")
     \/ Includes(filepath, "spec")
  \/ Includes(filepath, "node_modules")
  \/ Includes(ToLowerCase(context), "database")

\* AddToResults without the lookup of an existing entry
AddToResults_NoFind(res, filepath, context) ==
  Append(res, [filepath |-> filepath, matches |-> <<context>>])

\* AddToResults without the test that the context is already stored
AddToResults_NoSome(res, filepath, context) ==
  IF \E i \in 1..Len(res) : res[i].filepath = filepath
  THEN LET e == CHOOSE i \in 1..Len(res) :
                  /\ res[i].filepath = filepath
                  /\ \A j \in 1..(i - 1) : res[j].filepath # filepath
       IN [res EXCEPT ![e].matches = Append(@, context)]
  ELSE Append(res, [filepath |-> filepath, matches |-> <<context>>])

\* AddToResults that keeps only the first context of a file
AddToResults_FirstOnly(res, filepath, context) ==
  IF \E i \in 1..Len(res) : res[i].filepath = filepath
  THEN res
  ELSE Append(res, [filepath |-> filepath, matches |-> <<context>>])

\* AddToResults that puts a new entry in front (unshift for push)
AddToResults_Unshift(res, filepath, context) ==
  IF \E i \in 1..Len(res) : res[i].filepath = filepath
  THEN LET e == CHOOSE i \in 1..Len(res) :
                  /\ res[i].filepath = filepath
                  /\ \A j \in 1..(i - 1) : res[j].filepath # filepath
       IN IF \E k \in 1..Len(res[e].matches) : res[e].matches[k] = context
          THEN res
          ELSE [res EXCEPT ![e].matches = Append(@, context)]
  ELSE <<[filepath |-> filepath, matches |-> <<context>>]>> \o res

\* results.find(...) then the push of the context or of a new entry
AddToResults(res, filepath, context) ==
  IF \E i \in 1..Len(res) : res[i].filepath = filepath
  THEN LET e == CHOOSE i \in 1..Len(res) :
                  /\ res[i].filepath = filepath
                  /\ \A j \in 1..(i - 1) : res[j].filepath # filepath
       IN IF \E k \in 1..Len(res[e].matches) : res[e].matches[k] = context
          THEN res
          ELSE [res EXCEPT ![e].matches = Append(@, context)]
  ELSE Append(res, [filepath |-> filepath, matches |-> <<context>>])

\* the body of lines.forEach for one line
FoldLine(res, line) ==
  LET p == ParseLine(line)
  IN IF Skipped(p.filepath, p.context) THEN res
     ELSE AddToResults(res, p.filepath, p.context)

\* the position after the current pattern's callback has returned
NextPattern ==
  /\ pIdx' = pIdx + 1
  /\ pc' = IF pIdx + 1 > Len(patterns) THEN "categorize" ELSE "scan"

\* execSync returns: grep selected lines
GrepOk ==
  /\ script = "mock" /\ pc = "scan"
  /\ GrepStatus(tree, denied, patterns[pIdx]) = 0
  /\ lines' = OutputLines(GrepOutput(tree, denied, patterns[pIdx]))
  /\ pc' = "fold"
  /\ UNCHANGED << env, cwdGone, pIdx, rawLines, errors, results,
                  directAccessResults, outVars >>

\* execSync throws with status 1: no match, the catch stays silent
GrepNoMatch ==
  /\ script = "mock" /\ pc = "scan"
  /\ GrepStatus(tree, denied, patterns[pIdx]) = 1
  /\ NextPattern
  /\ UNCHANGED << env, cwdGone, lines, rawLines, errors, results,
                  directAccessResults, outVars >>

\* execSync throws with another status: the catch logs, grep's output is lost
GrepError ==
  /\ script = "mock" /\ pc = "scan"
  /\ GrepStatus(tree, denied, patterns[pIdx]) \notin {0, 1}
  /\ errors' = Append(errors, patterns[pIdx])
  /\ NextPattern
  /\ UNCHANGED << env, cwdGone, lines, rawLines, results,
                  directAccessResults, outVars >>

\* the line callback run on the first line only, the rest of the output
\* left unprocessed
FoldStep_DropsRest ==
  /\ script = "mock" /\ pc = "fold" /\ Len(lines) > 0
  /\ results' = FoldLine(results, Head(lines))
  /\ rawLines' = rawLines \o RawMatches(<<Head(lines)>>, patterns[pIdx])
  /\ lines' = <<>>
  /\ NextPattern
  /\ UNCHANGED << env, cwdGone, errors, directAccessResults, outVars >>

\* one call of the line callback
FoldStep ==
  /\ script = "mock" /\ pc = "fold" /\ Len(lines) > 0
  /\ results' = FoldLine(results, Head(lines))
  /\ rawLines' = rawLines \o RawMatches(<<Head(lines)>>, patterns[pIdx])
  /\ lines' = Tail(lines)
  /\ IF Len(lines) = 1 THEN NextPattern ELSE UNCHANGED << pc, pIdx >>
  /\ UNCHANGED << env, cwdGone, errors, directAccessResults, outVars >>

(***************************************************************************)
(* categorizeMockUsageByModule                                              *)
(***************************************************************************)
\* ModuleOf with the assessment test ahead of the auth test
ModuleOf_AssessmentFirst(filepath) ==
  IF Includes(filepath, "/assessment/") THEN "assessment"
  ELSE IF Includes(filepath, "/auth/") \/ Includes(filepath, "/authentication/")
  THEN "auth"
  ELSE IF Includes(filepath, "/item/") \/ Includes(filepath, "/item-banking/")
  THEN "item-banking"
  ELSE IF Includes(filepath, "/psychometric/") THEN "psychometric"
  ELSE IF Includes(filepath, "/results/") THEN "results"
  ELSE IF Includes(filepath, "/admin/") THEN "admin"
  ELSE IF Includes(filepath, "/analytics/") THEN "analytics"
  ELSE IF Includes(filepath, "/ui/") \/ Includes(filepath, "/components/")
  THEN "ui"
  ELSE "unknown"

\* the if / else-if chain over filepath.includes
ModuleOf(filepath) ==
  IF Includes(filepath, "/auth/") \/ Includes(filepath, "/authentication/")
  THEN "auth"
  ELSE IF Includes(filepath, "/assessment/") THEN "assessment"
  ELSE IF Includes(filepath, "/item/") \/ Includes(filepath, "/item-banking/")
  THEN "item-banking"
  ELSE IF Includes(filepath, "/psychometric/") THEN "psychometric"
  ELSE IF Includes(filepath, "/results/") THEN "results"
  ELSE IF Includes(filepath, "/admin/") THEN "admin"
  ELSE IF Includes(filepath, "/analytics/") THEN "analytics"
  ELSE IF Includes(filepath, "/ui/") \/ Includes(filepath, "/components/")
  THEN "ui"
  ELSE "unknown"

\* PushEntry that assigns a fresh array to a key that exists already
PushEntry_Overwrite(modules, module, entry) ==
  IF \E i \in 1..Len(modules) : modules[i].module = module
  THEN LET b == CHOOSE i \in 1..Len(modules) : modules[i].module = module
       IN [modules EXCEPT ![b].entries = <<entry>>]
  ELSE Append(modules, [module |-> module, entries |-> <<entry>>])

\* modules[module].push(entry), creating the key on first use; the object
\* is the sequence of its (key, value) pairs in key insertion order
PushEntry(modules, module, entry) ==
  IF \E i \in 1..Len(modules) : modules[i].module = module
  THEN LET b == CHOOSE i \in 1..Len(modules) : modules[i].module = module
       IN [modules EXCEPT ![b].entries = Append(@, entry)]
  ELSE Append(modules, [module |-> module, entries |-> <<entry>>])

\* mockUsage.forEach from entry number i on
RECURSIVE CategorizeFrom(_, _, _)
CategorizeFrom(mockUsage, i, modules) ==
  IF i > Len(mockUsage) THEN modules
  ELSE CategorizeFrom(mockUsage, i + 1,
         PushEntry(modules, ModuleOf(mockUsage[i].filepath), mockUsage[i]))

categorizeMockUsageByModule(mockUsage) == CategorizeFrom(mockUsage, 1, <<>>)

(***************************************************************************)
(* main of the mock replacement script                                      *)
(***************************************************************************)
Chunk(kind, text) == [kind |-> kind, text |-> text]

\* the chunks one entry adds to reportContent
RenderEntry(entry) ==
  << Chunk("h4", entry.filepath),
     Chunk("p", "Context (showing 1 of ${entry.matches.length} matches):") >>
  \o (IF Len(entry.matches) > 0
      THEN << Chunk("code", entry.matches[1]) >> ELSE <<>>)

RECURSIVE RenderEntries(_)
RenderEntries(entries) ==
  IF Len(entries) = 0 THEN <<>>
  ELSE RenderEntry(Head(entries)) \o RenderEntries(Tail(entries))

\* Object.entries(mockUsageByModule).forEach
RECURSIVE RenderModules(_)
RenderModules(modules) ==
  IF Len(modules) = 0 THEN <<>>
  ELSE << Chunk("h3", Capitalize(Head(modules).module) \o " Module"),
          Chunk("p", "Files with mock data:") >>
       \o RenderEntries(Head(modules).entries)
       \o RenderModules(Tail(modules))

\* the whole of reportContent: the opening template, the module sections,
\* the closing template (the backquotes of the templates are left out)
RenderMockReport(modules) ==
  << Chunk("h1", "Workstream Mock Replacement Report"),
     Chunk("h2", "Overview"),
     Chunk("p", "This report identifies mock data usage in the codebase that needs to be replaced with real Supabase database integration. This is part of the workstream-mock-replacement initiative, which aims to enhance the application's reliability by using real data."),
     Chunk("h2", "Mock Data Usage") >>
  \o RenderModules(modules)
  \o << Chunk("h2", "Implementation Steps"),
        Chunk("p", "For complete implementation details, please run the full script locally:"),
        Chunk("code", "node scripts/implement-mock-replacement.js"),
        Chunk("p", "This script will:"),
        Chunk("li", "1. Analyze mock data usage across all modules"),
        Chunk("li", "2. Generate a detailed replacement strategy for each module"),
        Chunk("li", "3. Create test data utilities for testing"),
        Chunk("li", "4. Provide code examples for the replacement process"),
        Chunk("p", "The full implementation will also generate the following patterns:"),
        Chunk("li", "Loading state components"),
        Chunk("li", "SWR integration for data fetching"),
        Chunk("li", "Error handling patterns"),
        Chunk("li", "Database connectivity monitoring") >>

\* categorize with the module keys coming out in either order
Categorize_AnyKeyOrder ==
  /\ script = "mock" /\ pc = "categorize"
  /\ mockUsageByModule' \in { categorizeMockUsageByModule(results),
                              Reverse(categorizeMockUsageByModule(results)) }
  /\ pc' = "path"
  /\ UNCHANGED << env, cwdGone, scanVars, reportContent, reportFile, writes,
                  exitCode >>

\* const mockUsageByModule = categorizeMockUsageByModule(mockUsage)
Categorize ==
  /\ script = "mock" /\ pc = "categorize"
  /\ mockUsageByModule' = categorizeMockUsageByModule(results)
  /\ pc' = "path"
  /\ UNCHANGED << env, cwdGone, scanVars, reportContent, reportFile, writes,
                  exitCode >>

\* the rendering of reportContent
RenderMock ==
  /\ script = "mock" /\ pc = "render"
  /\ reportContent' = RenderMockReport(mockUsageByModule)
  /\ pc' = "write"
  /\ UNCHANGED << env, cwdGone, scanVars, mockUsageByModule, reportFile, writes,
                  exitCode >>

(***************************************************************************)
(* The data access script: findDirectSchemaAccess and its main.             *)
(***************************************************************************)
SCHEMAS ==
  << "auth", "public", "assessment", "item", "results", "admin",
     "organization" >>

DataFiles ==
  { [path |-> "/src/x.ts", text |-> << "supabase.from('auth.users')" >>],
    [path |-> "/src/y.ts",
     text |-> << "from('auth.users').or(from('public.items'))" >>],
    [path |-> "/src/z.js", text |-> << "from(\"public.items\")", "from x" >>],
    [path |-> "/src/w.tsx", text |-> << "from('item.')" >>] }

\* grep -r "from(['\"]<schema>\." --include=... .
SchemaGrepOutput(t, d, schema) ==
  PrintLines(SelectSeq(TreeLines(t, 1),
               LAMBDA l : /\ GrepIncluded(l.path)
                          /\ l.file # d
                          /\ \/ Includes(l.text, "from('" \o schema \o ".")
                             \/ Includes(l.text, "from(\"" \o schema \o ".")),
             ".")

SchemaGrepStatus(t, d, schema) ==
  IF d # 0 /\ GrepIncluded(t[d].path) THEN 2
  ELSE IF SchemaGrepOutput(t, d, schema) = "" THEN 1
  ELSE 0

\* character i of s, "" past its end
CharAt(s, i) == IF i >= 1 /\ i <= Len(s) THEN SubSeq(s, i, i) ELSE ""

\* the end of the longest run of characters outside stops that starts at i:
\* the index of the first character in stops, or Len(s) + 1
RunEnd(s, i, stops) ==
  CHOOSE j \in i..(Len(s) + 1) :
    /\ j = Len(s) + 1 \/ CharAt(s, j) \in stops
    /\ \A k \in i..(j - 1) : CharAt(s, k) \notin stops

\* whether from\(['"]([^.']+)\.([^'")]+) matches at position f of s
FromAt(s, f) ==
  /\ f + 5 <= Len(s)
  /\ SubSeq(s, f, f + 4) = "from("
  /\ CharAt(s, f + 5) \in {"'", "\""}
  /\ LET e == RunEnd(s, f + 6, {".", "'"})
     IN /\ e > f + 6
        /\ CharAt(s, e) = "."
        /\ RunEnd(s, e + 1, {"'", "\"", ")"}) > e + 1

\* line.match(/([^:]+):.*?from\(['"]([^.']+)\.([^'")]+)/): the groups, or
\* ok = FALSE for null
MatchLine(line) ==
  LET b  == CHOOSE j \in 1..(Len(line) + 1) :   \* where group 1 starts
              /\ CharAt(line, j) # ":"
              /\ \A k \in 1..(j - 1) : CharAt(line, k) = ":"
      c  == RunEnd(line, b, {":"})             \* the ':' that ends group 1
      fs == { f \in (c + 1)..Len(line) : FromAt(line, f) }
  IN IF b > Len(line) \/ c > Len(line) \/ fs = {}
     THEN [ok |-> FALSE, filepath |-> "", matchedSchema |-> "", table |-> ""]
     ELSE LET f == CHOOSE x \in fs : \A y \in fs : x <= y
              e == RunEnd(line, f + 6, {".", "'"})
              z == RunEnd(line, e + 1, {"'", "\"", ")"})
          IN [ok |-> TRUE,
              filepath |-> SubSeq(line, b, c - 1),
              matchedSchema |-> SubSeq(line, f + 6, e - 1),
              table |-> SubSeq(line, e + 1, z - 1)]

\* results[schema][table].push(filepath), creating the key on first use
PushFile(tables, table, filepath) ==
  IF \E i \in 1..Len(tables) : tables[i].table = table
  THEN LET b == CHOOSE i \in 1..Len(tables) : tables[i].table = table
       IN [tables EXCEPT ![b].files = Append(@, filepath)]
  ELSE Append(tables, [table |-> table, files |-> <<filepath>>])

\* lines.forEach of findDirectSchemaAccess
RECURSIVE IndexLines(_, _)
IndexLines(ls, tables) ==
  IF Len(ls) = 0 THEN tables
  ELSE LET m == MatchLine(Head(ls))
       IN IndexLines(Tail(ls),
            IF m.ok THEN PushFile(tables, m.table, m.filepath) ELSE tables)

\* the position after the callback of SCHEMAS.forEach has returned
NextSchema ==
  /\ pIdx' = pIdx + 1
  /\ pc' = IF pIdx + 1 > Len(SCHEMAS) THEN "path" ELSE "scan"

\* the callback for one schema, grep selected lines
SchemaScanOk ==
  /\ script = "data" /\ pc = "scan"
  /\ SchemaGrepStatus(tree, denied, SCHEMAS[pIdx]) = 0
  /\ LET ls == OutputLines(SchemaGrepOutput(tree, denied, SCHEMAS[pIdx]))
     IN /\ rawLines' = rawLines \o RawMatches(ls, SCHEMAS[pIdx])
        /\ directAccessResults' =
             Append(directAccessResults,
                    [schema |-> SCHEMAS[pIdx], tables |-> IndexLines(ls, <<>>)])
  /\ NextSchema
  /\ UNCHANGED << env, cwdGone, lines, errors, results, outVars >>

\* the callback for one schema, execSync throws with status 1
SchemaScanNoMatch ==
  /\ script = "data" /\ pc = "scan"
  /\ SchemaGrepStatus(tree, denied, SCHEMAS[pIdx]) = 1
  /\ NextSchema
  /\ UNCHANGED << env, cwdGone, lines, rawLines, errors, results,
                  directAccessResults, outVars >>

\* the callback for one schema, execSync throws with another status
SchemaScanError ==
  /\ script = "data" /\ pc = "scan"
  /\ SchemaGrepStatus(tree, denied, SCHEMAS[pIdx]) \notin {0, 1}
  /\ errors' = Append(errors, SCHEMAS[pIdx])
  /\ NextSchema
  /\ UNCHANGED << env, cwdGone, lines, rawLines, results,
                  directAccessResults, outVars >>

RECURSIVE RenderFiles(_)
RenderFiles(files) ==
  IF Len(files) = 0 THEN <<>>
  ELSE << Chunk("li", Head(files)) >> \o RenderFiles(Tail(files))

\* Object.entries(tables).forEach
RECURSIVE RenderTables(_)
RenderTables(tables) ==
  IF Len(tables) = 0 THEN <<>>
  ELSE << Chunk("h4", Head(tables).table \o " Table"),
          Chunk("p", "Files with direct access:") >>
       \o RenderFiles(Head(tables).files)
       \o RenderTables(Tail(tables))

\* Object.entries(directAccessResults).forEach
RECURSIVE RenderSchemas(_)
RenderSchemas(schemas) ==
  IF Len(schemas) = 0 THEN <<>>
  ELSE << Chunk("h3", Head(schemas).schema \o " Schema") >>
       \o RenderTables(Head(schemas).tables)
       \o RenderSchemas(Tail(schemas))

RenderDataReport(schemas) ==
  << Chunk("h1", "Workstream Data Access Report"),
     Chunk("h2", "Overview"),
     Chunk("p", "This report identifies direct schema-prefixed table access patterns"),
     Chunk("h2", "Schema-Prefixed Table Access") >>
  \o RenderSchemas(schemas)
  \o << Chunk("h2", "Implementation Recommendation"),
        Chunk("p", "For complete implementation details, please run the full script locally") >>

RenderData ==
  /\ script = "data" /\ pc = "render"
  /\ reportContent' = RenderDataReport(directAccessResults)
  /\ pc' = "write"
  /\ UNCHANGED << env, cwdGone, scanVars, mockUsageByModule, reportFile, writes,
                  exitCode >>

(***************************************************************************)
(* The repository pattern script: findDirectDatabaseAccess and its main.    *)
(***************************************************************************)
MODULES ==
  << "auth", "assessment", "item", "results", "psychometric", "admin",
     "analytics" >>

\* process.cwd()
Cwd == "/repo"

RepoFiles ==
  { [path |-> "/src/modules/auth/r.ts",
     text |-> << "import x from 'y'", "supabase.rpc()" >>],
    [path |-> "/src/modules/auth/s.js", text |-> << "supabase" >>],
    [path |-> "/src/modules/item/t.ts", text |-> << "const a = 1" >>],
    [path |-> "/src/modules/admin/u.md", text |-> << "from" >>],
    [path |-> "/src/lib/v.ts", text |-> << "from" >>] }

\* path.join(process.cwd(), 'src', 'modules', module)
ModuleDir(module) == Cwd \o "/src/modules/" \o module

\* whether the file at path (under the working directory) lies below dir
Below(path, dir) ==
  LET abs == Cwd \o path
  IN Len(abs) > Len(dir) /\ SubSeq(abs, 1, Len(dir) + 1) = dir \o "/"

\* fs.existsSync(moduleDir)
ExistsSync(t, dir) == \E i \in 1..Len(t) : Below(t[i].path, dir)

\* grep -r "from\|supabase" --include=... <moduleDir>
ModuleGrepOutput(t, d, dir) ==
  PrintLines(SelectSeq(TreeLines(t, 1),
               LAMBDA l : /\ Below(l.path, dir)
                          /\ GrepIncluded(l.path)
                          /\ l.file # d
                          /\ \/ Includes(l.text, "from")
                             \/ Includes(l.text, "supabase")),
             Cwd)

ModuleGrepStatus(t, d, dir) ==
  IF d # 0 /\ Below(t[d].path, dir) /\ GrepIncluded(t[d].path) THEN 2
  ELSE IF ModuleGrepOutput(t, d, dir) = "" THEN 1
  ELSE 0

\* Array.from(accessFiles) after accessFiles.add(parts[0]) for every line
RECURSIVE AccessFiles(_, _)
AccessFiles(ls, acc) ==
  IF Len(ls) = 0 THEN acc
  ELSE LET filepath == Split(Head(ls), ":")[1]
       IN AccessFiles(Tail(ls),
            IF \E i \in 1..Len(acc) : acc[i] = filepath THEN acc
            ELSE Append(acc, filepath))

\* results[module] as the callback first sets it
EmptyResult(module) ==
  [module |-> module, moduleDir |-> "null", hasDirectAccess |-> FALSE,
   files |-> <<>>]

\* the position after the callback of MODULES.forEach has returned
NextModule ==
  /\ pIdx' = pIdx + 1
  /\ pc' = IF pIdx + 1 > Len(MODULES) THEN "path" ELSE "scan"

\* the callback for one module, process.cwd() throws: caught and logged
ModuleScanCwdThrows ==
  /\ script = "repo" /\ pc = "scan"
  /\ cwdGone' = TRUE
  /\ directAccessResults' = Append(directAccessResults, EmptyResult(MODULES[pIdx]))
  /\ errors' = Append(errors, MODULES[pIdx])
  /\ NextModule
  /\ UNCHANGED << env, lines, rawLines, results, outVars >>

\* the callback for one module whose directory does not exist
ModuleScanNoDir ==
  /\ script = "repo" /\ pc = "scan" /\ ~cwdGone
  /\ ~ExistsSync(tree, ModuleDir(MODULES[pIdx]))
  /\ directAccessResults' = Append(directAccessResults, EmptyResult(MODULES[pIdx]))
  /\ NextModule
  /\ UNCHANGED << env, cwdGone, lines, rawLines, errors, results, outVars >>

\* the callback for one module, grep selected lines
ModuleScanOk ==
  /\ script = "repo" /\ pc = "scan" /\ ~cwdGone
  /\ ExistsSync(tree, ModuleDir(MODULES[pIdx]))
  /\ ModuleGrepStatus(tree, denied, ModuleDir(MODULES[pIdx])) = 0
  /\ LET ls == OutputLines(ModuleGrepOutput(tree, denied, ModuleDir(MODULES[pIdx])))
     IN /\ rawLines' = rawLines \o RawMatches(ls, MODULES[pIdx])
        /\ directAccessResults' =
             Append(directAccessResults,
                    [module |-> MODULES[pIdx],
                     moduleDir |-> ModuleDir(MODULES[pIdx]),
                     hasDirectAccess |-> TRUE,
                     files |-> AccessFiles(ls, <<>>)])
  /\ NextModule
  /\ UNCHANGED << env, cwdGone, lines, errors, results, outVars >>

\* the callback for one module, execSync throws with status 1
ModuleScanNoMatch ==
  /\ script = "repo" /\ pc = "scan" /\ ~cwdGone
  /\ ExistsSync(tree, ModuleDir(MODULES[pIdx]))
  /\ ModuleGrepStatus(tree, denied, ModuleDir(MODULES[pIdx])) = 1
  /\ directAccessResults' =
       Append(directAccessResults,
              [EmptyResult(MODULES[pIdx]) EXCEPT
                 !.moduleDir = ModuleDir(MODULES[pIdx])])
  /\ NextModule
  /\ UNCHANGED << env, cwdGone, lines, rawLines, errors, results, outVars >>

\* the callback for one module, execSync throws with another status
ModuleScanError ==
  /\ script = "repo" /\ pc = "scan" /\ ~cwdGone
  /\ ExistsSync(tree, ModuleDir(MODULES[pIdx]))
  /\ ModuleGrepStatus(tree, denied, ModuleDir(MODULES[pIdx])) \notin {0, 1}
  /\ directAccessResults' =
       Append(directAccessResults,
              [EmptyResult(MODULES[pIdx]) EXCEPT
                 !.moduleDir = ModuleDir(MODULES[pIdx])])
  /\ errors' = Append(errors, MODULES[pIdx])
  /\ NextModule
  /\ UNCHANGED << env, cwdGone, lines, rawLines, results, outVars >>

\* the status section left out for a module whose directory was not found
RenderModuleStatus_SkipsMissing(r) ==
  IF r.moduleDir = "null" THEN <<>>
  ELSE << Chunk("h3", Capitalize(r.module) \o " Module"),
          Chunk("li", "Module directory: " \o r.moduleDir),
          Chunk("li", "Has direct database access: "
                      \o (IF r.hasDirectAccess THEN "Yes" ELSE "No")) >>
       \o (IF r.hasDirectAccess /\ Len(r.files) > 0
           THEN << Chunk("li", "Files with direct access: "
                               \o ToString(Len(r.files))) >>
                \o (IF Len(r.files) <= 3 THEN RenderFiles(r.files) ELSE <<>>)
           ELSE <<>>)

\* the chunks one module adds to reportContent
RenderModuleStatus(r) ==
  << Chunk("h3", Capitalize(r.module) \o " Module") >>
  \o (IF r.moduleDir # "null"
      THEN << Chunk("li", "Module directory: " \o r.moduleDir),
              Chunk("li", "Has direct database access: "
                          \o (IF r.hasDirectAccess THEN "Yes" ELSE "No")) >>
           \o (IF r.hasDirectAccess /\ Len(r.files) > 0
               THEN << Chunk("li", "Files with direct access: "
                                   \o ToString(Len(r.files))) >>
                    \o (IF Len(r.files) > 0 /\ Len(r.files) <= 3
                        THEN RenderFiles(r.files) ELSE <<>>)
               ELSE <<>>)
      ELSE << Chunk("li", "Module directory not found") >>)

\* Object.entries(directAccessResults).forEach
RECURSIVE RenderModuleStatuses(_)
RenderModuleStatuses(rs) ==
  IF Len(rs) = 0 THEN <<>>
  ELSE RenderModuleStatus(Head(rs)) \o RenderModuleStatuses(Tail(rs))

RenderRepoReport(rs) ==
  << Chunk("h1", "Workstream Repository Pattern Report"),
     Chunk("h2", "Overview"),
     Chunk("p", "This report outlines the implementation of the repository pattern across modules"),
     Chunk("h2", "Current Status") >>
  \o RenderModuleStatuses(rs)
  \o << Chunk("h2", "Implementation"),
        Chunk("p", "For complete implementation details, please run the full script locally"),
        Chunk("h2", "Next Steps") >>

RenderRepo ==
  /\ script = "repo" /\ pc = "render"
  /\ reportContent' = RenderRepoReport(directAccessResults)
  /\ pc' = "write"
  /\ UNCHANGED << env, cwdGone, scanVars, mockUsageByModule, reportFile, writes,
                  exitCode >>

(***************************************************************************)
(* The steps the three main functions share.                                *)
(***************************************************************************)
\* path.join(process.cwd(), ...): process.cwd() returns
ReportPathOk ==
  /\ pc = "path" /\ ~cwdGone
  /\ pc' = "render"
  /\ UNCHANGED << env, cwdGone, scanVars, outVars >>

\* ReportPathThrows with a catch that writes what has been rendered so far
ReportPathThrows_WritesPartial ==
  /\ pc = "path"
  /\ cwdGone' = TRUE
  /\ writes' = writes + 1
  /\ reportFile' = [state |-> "partial", content |-> reportContent]
  /\ pc' = "done" /\ exitCode' = 1
  /\ UNCHANGED << env, scanVars, mockUsageByModule, reportContent >>

\* process.cwd() throws (the working directory is gone): the catch of main
ReportPathThrows ==
  /\ pc = "path"
  /\ cwdGone' = TRUE
  /\ pc' = "done" /\ exitCode' = 1
  /\ UNCHANGED << env, scanVars, mockUsageByModule, reportContent, reportFile,
                  writes >>

\* fs.writeFileSync returns; main ends and the process exits with 0
WriteOk ==
  /\ pc = "write"
  /\ writes' = writes + 1
  /\ reportFile' = [state |-> "written", content |-> reportContent]
  /\ pc' = "done" /\ exitCode' = 0
  /\ UNCHANGED << env, cwdGone, scanVars, mockUsageByModule, reportContent >>

\* fs.writeFileSync throws: the file cannot be opened and stays as it was,
\* or it is opened (truncated) and the write stops before the end, here
\* before the first or before the last chunk; the catch of main
WriteThrows ==
  /\ pc = "write"
  /\ writes' = writes + 1
  /\ \/ reportFile' = reportFile
     \/ \E n \in {0, Len(reportContent) - 1} :
          reportFile' = [state |-> "partial",
                         content |-> SubSeq(reportContent, 1, n)]
  /\ pc' = "done" /\ exitCode' = 1
  /\ UNCHANGED << env, cwdGone, scanVars, mockUsageByModule, reportContent >>

NoFile == [state |-> "absent", content |-> <<>>]

\* no earlier run
NoRun == [results |-> <<>>, mockUsageByModule |-> <<>>, report |-> <<>>,
          ran |-> FALSE]

\* node scripts/implement-mock-replacement.js is started again in the same
\* working directory after a run that has written its report: main starts
\* with fresh results, the report file of the earlier run is on disk
Rerun ==
  /\ script = "mock" /\ pc = "done" /\ exitCode = 0 /\ ~first.ran
  /\ first' = [results |-> results, mockUsageByModule |-> mockUsageByModule,
               report |-> reportFile.content, ran |-> TRUE]
  /\ pc' = "scan" /\ pIdx' = 1
  /\ lines' = <<>> /\ rawLines' = <<>> /\ errors' = <<>> /\ results' = <<>>
  /\ mockUsageByModule' = <<>> /\ reportContent' = <<>>
  /\ writes' = 0 /\ exitCode' = -1
  /\ UNCHANGED << script, tree, denied, patterns, ghVars, cwdGone,
                  directAccessResults, reportFile >>

InitMock ==
  /\ script = "mock"
  /\ tree \in TreesOver(MockFiles, MaxFiles)
  /\ denied \in 0..Len(tree)
  /\ patterns \in PatternOrders
  /\ cwdGone = FALSE /\ first = NoRun
  /\ remote = {} /\ calls = <<>> /\ failures = 0 /\ processed = <<>>
  /\ pc = "scan" /\ pIdx = 1
  /\ lines = <<>> /\ rawLines = <<>> /\ errors = <<>>
  /\ results = <<>> /\ directAccessResults = <<>>
  /\ mockUsageByModule = <<>>
  /\ reportContent = <<>> /\ reportFile = NoFile
  /\ writes = 0 /\ exitCode = -1

\* the state in which main of one of the other two scripts starts
InitOther(name, files) ==
  /\ script = name
  /\ tree \in TreesOver(files, MaxFiles)
  /\ denied \in 0..Len(tree)
  /\ patterns = MOCK_PATTERNS
  /\ cwdGone = FALSE /\ first = NoRun
  /\ remote = {} /\ calls = <<>> /\ failures = 0 /\ processed = <<>>
  /\ pc = "scan" /\ pIdx = 1
  /\ lines = <<>> /\ rawLines = <<>> /\ errors = <<>>
  /\ results = <<>> /\ directAccessResults = <<>>
  /\ mockUsageByModule = <<>>
  /\ reportContent = <<>> /\ reportFile = NoFile
  /\ writes = 0 /\ exitCode = -1

Init ==
  \/ InitMock
  \/ InitOther("data", DataFiles)
  \/ InitOther("repo", RepoFiles)

Next ==
  \/ GrepOk \/ GrepNoMatch \/ GrepError \/ FoldStep
  \/ Categorize \/ RenderMock
  \/ SchemaScanOk \/ SchemaScanNoMatch \/ SchemaScanError \/ RenderData
  \/ ModuleScanCwdThrows \/ ModuleScanNoDir \/ ModuleScanOk
  \/ ModuleScanNoMatch \/ ModuleScanError \/ RenderRepo
  \/ ReportPathOk \/ ReportPathThrows \/ WriteOk \/ WriteThrows

Spec == Init /\ [][Next]_vars

(***************************************************************************)
(* categorizeMockUsageByModule on its own: the input is any list of at most *)
(* MaxFiles entries with distinct paths, as findMockUsage returns them.     *)
(***************************************************************************)
ClassifyPaths ==
  { "./src/auth/a.ts", "./src/authentication/a.ts", "./src/assessment/a.ts",
    "./src/item/a.ts", "./src/item-banking/a.ts", "./src/psychometric/a.ts",
    "./src/results/a.ts", "./src/admin/a.ts", "./src/analytics/a.ts",
    "./src/ui/a.ts", "./src/components/a.ts", "./src/assessment/auth/a.ts",
    "./src/ui/admin/results/a.ts", "./lib/a.ts", "./src/auth.ts" }

\* main after findMockUsage has returned the entries of the files of tree,
\* each found by the first pattern in its only line
InitClassify ==
  /\ script = "mock"
  /\ tree \in TreesOver({ [path |-> SubSeq(q, 2, Len(q)), text |-> << "mock" >>]
                           : q \in ClassifyPaths }, MaxFiles)
  /\ denied = 0
  /\ patterns = MOCK_PATTERNS
  /\ cwdGone = FALSE /\ first = NoRun
  /\ remote = {} /\ calls = <<>> /\ failures = 0 /\ processed = <<>>
  /\ pc = "categorize" /\ pIdx = Len(patterns) + 1
  /\ lines = <<>> /\ errors = <<>>
  /\ rawLines = [i \in 1..Len(tree) |->
                   [line |-> "." \o tree[i].path \o ":mock", pattern |-> "mock"]]
  /\ results = [i \in 1..Len(tree) |->
                  [filepath |-> "." \o tree[i].path, matches |-> << "mock" >>]]
  /\ directAccessResults = <<>>
  /\ mockUsageByModule = <<>>
  /\ reportContent = <<>> /\ reportFile = NoFile
  /\ writes = 0 /\ exitCode = -1

NextClassify == Categorize

SpecClassify == InitClassify /\ [][NextClassify]_vars

(***************************************************************************)
(* The mock replacement script run twice on the same tree.                  *)
(***************************************************************************)
NextTwice ==
  \/ GrepOk \/ GrepNoMatch \/ GrepError \/ FoldStep
  \/ Categorize \/ RenderMock
  \/ ReportPathOk \/ ReportPathThrows \/ WriteOk \/ WriteThrows
  \/ Rerun

SpecTwice == InitMock /\ [][NextTwice]_vars

(***************************************************************************)
(* The label script: createOrUpdateLabel and its main.  A label is modelled *)
(* by its name; color and description are passed to gh unchanged.           *)
(***************************************************************************)
MaxExisting == 2
MaxFailures == 2

WORKSTREAM_LABELS ==
  << "workstream-data-access", "workstream-mock-replacement",
     "workstream-repository-pattern", "workstream-auth",
     "workstream-navigation", "workstream-type-centralization",
     "workstream-ui" >>

PRIORITY_LABELS == << "priority:high", "priority:medium", "priority:low" >>

ALL_LABELS == WORKSTREAM_LABELS \o PRIORITY_LABELS

\* what the report scripts' variables are during a run of the label script
reportVars ==
  << tree, denied, patterns, first, cwdGone, lines, rawLines, results,
     directAccessResults, mockUsageByModule, reportContent, reportFile,
     writes >>

\* one gh label call and whether execSync returned
Call(op, label, ok) == [op |-> op, label |-> label, ok |-> ok]

\* execSync('gh --version') returns
GhVersionOk ==
  /\ script = "labels" /\ pc = "version"
  /\ pc' = "get"
  /\ UNCHANGED << script, reportVars, ghVars, pIdx, errors, exitCode >>

\* execSync('gh --version') throws: process.exit(1)
GhVersionThrows ==
  /\ script = "labels" /\ pc = "version" /\ failures < MaxFailures
  /\ failures' = failures + 1
  /\ pc' = "done" /\ exitCode' = 1
  /\ UNCHANGED << script, reportVars, remote, calls, processed, pIdx, errors >>

\* the position after createOrUpdateLabel has returned
NextLabel ==
  /\ pIdx' = pIdx + 1
  /\ IF pIdx + 1 > Len(ALL_LABELS)
     THEN pc' = "done" /\ exitCode' = 0
     ELSE pc' = "get" /\ UNCHANGED exitCode

\* gh label get returns: the label exists
LabelGetOk ==
  /\ script = "labels" /\ pc = "get"
  /\ ALL_LABELS[pIdx] \in remote
  /\ processed' = Append(processed, ALL_LABELS[pIdx])
  /\ calls' = << Call("get", ALL_LABELS[pIdx], TRUE) >>
  /\ pc' = "edit"
  /\ UNCHANGED << script, reportVars, remote, failures, pIdx, errors, exitCode >>

\* gh label get throws: the label does not exist, or the call failed for
\* another reason (network, authentication, rate limit)
LabelGetThrows ==
  /\ script = "labels" /\ pc = "get"
  /\ \/ ALL_LABELS[pIdx] \notin remote /\ UNCHANGED failures
     \/ failures < MaxFailures /\ failures' = failures + 1
  /\ processed' = Append(processed, ALL_LABELS[pIdx])
  /\ calls' = << Call("get", ALL_LABELS[pIdx], FALSE) >>
  /\ pc' = "create"
  /\ UNCHANGED << script, reportVars, remote, pIdx, errors, exitCode >>

\* gh label edit returns
LabelEditOk ==
  /\ script = "labels" /\ pc = "edit"
  /\ ALL_LABELS[pIdx] \in remote
  /\ calls' = Append(calls, Call("edit", ALL_LABELS[pIdx], TRUE))
  /\ NextLabel
  /\ UNCHANGED << script, reportVars, remote, failures, processed, errors >>

\* gh label edit throws: the inner catch takes it
LabelEditThrows ==
  /\ script = "labels" /\ pc = "edit" /\ failures < MaxFailures
  /\ failures' = failures + 1
  /\ calls' = Append(calls, Call("edit", ALL_LABELS[pIdx], FALSE))
  /\ pc' = "create"
  /\ UNCHANGED << script, reportVars, remote, processed, pIdx, errors, exitCode >>

\* gh label create returns: the label did not exist and now does
LabelCreateOk ==
  /\ script = "labels" /\ pc = "create"
  /\ ALL_LABELS[pIdx] \notin remote
  /\ remote' = remote \cup { ALL_LABELS[pIdx] }
  /\ calls' = Append(calls, Call("create", ALL_LABELS[pIdx], TRUE))
  /\ NextLabel
  /\ UNCHANGED << script, reportVars, failures, processed, errors >>

\* gh label create throws (the label exists already, or the call failed
\* for another reason): the outer catch logs the error
LabelCreateThrows ==
  /\ script = "labels" /\ pc = "create"
  /\ \/ ALL_LABELS[pIdx] \in remote /\ UNCHANGED failures
     \/ failures < MaxFailures /\ failures' = failures + 1
  /\ calls' = Append(calls, Call("create", ALL_LABELS[pIdx], FALSE))
  /\ errors' = Append(errors, ALL_LABELS[pIdx])
  /\ NextLabel
  /\ UNCHANGED << script, reportVars, remote, processed >>

\* main of the label script starts; some labels exist in the repository
InitLabels ==
  /\ script = "labels"
  /\ tree = <<>> /\ denied = 0 /\ patterns = MOCK_PATTERNS
  /\ cwdGone = FALSE /\ first = NoRun
  /\ remote \in { r \in SUBSET Range(ALL_LABELS) : Cardinality(r) <= MaxExisting }
  /\ calls = <<>> /\ failures = 0 /\ processed = <<>>
  /\ pc = "version" /\ pIdx = 1
  /\ lines = <<>> /\ rawLines = <<>> /\ errors = <<>>
  /\ results = <<>> /\ directAccessResults = <<>>
  /\ mockUsageByModule = <<>>
  /\ reportContent = <<>> /\ reportFile = NoFile
  /\ writes = 0 /\ exitCode = -1

NextLabels ==
  \/ GhVersionOk \/ GhVersionThrows
  \/ LabelGetOk \/ LabelGetThrows
  \/ LabelEditOk \/ LabelEditThrows
  \/ LabelCreateOk \/ LabelCreateThrows

SpecLabels == InitLabels /\ [][NextLabels]_vars

(***************************************************************************)
(* Properties.                                                              *)
(***************************************************************************)
\* the scan of the mock script has gone through every pattern
ScanDone == script = "mock" /\ pc \notin {"scan", "fold"}

\* categorizeMockUsageByModule has returned
Categorized == script = "mock" /\ pc \in {"path", "render", "write", "done"}

\* the raw matches processed so far, from number i on, parsed as the line
\* callback parses them
RECURSIVE RawParsedFrom(_)
RawParsedFrom(i) ==
  IF i > Len(rawLines) THEN <<>>
  ELSE << ParseLine(rawLines[i].line) >> \o RawParsedFrom(i + 1)

RawParsed == RawParsedFrom(1)

\* the exclusion predicates: a path that contains a test, spec or
\* dependency directory marker, a context that contains "database" in any
\* letter case
Excluded(filepath, context) ==
  \/ \E m \in {"test", "__tests__", "spec", "node_modules"} :
       Includes(filepath, m)
  \/ \E i \in 1..(Len(context) - 7) :
       \A k \in 1..8 :
         CharAt(context, i + k - 1) \in {CharAt("database", k), CharAt("DATABASE", k)}

\* the indices of the parsed raw matches P that no exclusion predicate drops
Kept(P) == { i \in DOMAIN P : ~Excluded(P[i].filepath, P[i].context) }

\* C1: after every line folded in by findMockUsage, whatever the patterns
\* and the lines, no two entries of results have the same filepath.
C1_UniqueFilepaths ==
  script = "mock" =>
    \A i, j \in 1..Len(results) :
      i # j => results[i].filepath # results[j].filepath

\* a file reached by two raw matches, with a second file in the results
C1_Witness ==
  /\ script = "mock" /\ Len(results) >= 2
  /\ LET P == RawParsed
     IN \E i, j \in Kept(P) : i # j /\ P[i].filepath = P[j].filepath

\* C2: no entry of results holds the same context twice, and every raw
\* match that is not excluded has its context stored exactly once in the
\* entry of its file, whichever pattern or patterns produced it.
C2_UniqueContexts ==
  script = "mock" =>
    /\ \A e \in 1..Len(results) :
         \A k, l \in 1..Len(results[e].matches) :
           k # l => results[e].matches[k] # results[e].matches[l]
    /\ LET P == RawParsed
       IN \A i \in Kept(P) :
            \E e \in 1..Len(results) :
              /\ results[e].filepath = P[i].filepath
              /\ Cardinality({ k \in 1..Len(results[e].matches) :
                                 results[e].matches[k] = P[i].context }) = 1

\* the same line of the same file found by two different patterns, and the
\* same text found twice by one pattern
C2_Witness ==
  /\ script = "mock"
  /\ LET K == Kept(RawParsed)
     IN /\ \E i, j \in K :
             /\ i # j /\ rawLines[i].line = rawLines[j].line
             /\ rawLines[i].pattern # rawLines[j].pattern
        /\ \E i, j \in K :
             /\ i # j /\ rawLines[i].line = rawLines[j].line
             /\ rawLines[i].pattern = rawLines[j].pattern

\* the number of entries in all buckets together
RECURSIVE BucketSizes(_)
BucketSizes(modules) ==
  IF Len(modules) = 0 THEN 0
  ELSE Len(Head(modules).entries) + BucketSizes(Tail(modules))

\* C3: categorizeMockUsageByModule drops and duplicates nothing: every
\* input entry is in exactly one bucket, exactly once, the bucket sizes sum
\* to the input length, and no module name has two buckets.
C3_Total ==
  Categorized =>
    /\ \A i \in 1..Len(results) :
         Cardinality({ bk \in { <<b, k>> : b \in 1..Len(mockUsageByModule),
                                          k \in 1..Len(results) } :
                        /\ bk[2] <= Len(mockUsageByModule[bk[1]].entries)
                        /\ mockUsageByModule[bk[1]].entries[bk[2]] = results[i] }) = 1
    /\ BucketSizes(mockUsageByModule) = Len(results)
    /\ \A b, c \in 1..Len(mockUsageByModule) :
         b # c => mockUsageByModule[b].module # mockUsageByModule[c].module

\* three entries in two buckets
C3_Witness ==
  /\ Categorized /\ Len(results) = 3 /\ Len(mockUsageByModule) = 2

\* the classification rules, in priority order
Rules ==
  << [mark |-> {"/auth/", "/authentication/"}, module |-> "auth"],
     [mark |-> {"/assessment/"}, module |-> "assessment"],
     [mark |-> {"/item/", "/item-banking/"}, module |-> "item-banking"],
     [mark |-> {"/psychometric/"}, module |-> "psychometric"],
     [mark |-> {"/results/"}, module |-> "results"],
     [mark |-> {"/admin/"}, module |-> "admin"],
     [mark |-> {"/analytics/"}, module |-> "analytics"],
     [mark |-> {"/ui/", "/components/"}, module |-> "ui"] >>

\* the rules with a substring that occurs in filepath
Matching(filepath) ==
  { r \in 1..Len(Rules) : \E m \in Rules[r].mark : Includes(filepath, m) }

\* C4: every entry is in the bucket of the first rule, in the order auth,
\* assessment, item-banking, psychometric, results, admin, analytics, ui,
\* whose substring occurs in its filepath, and in "unknown" exactly when no
\* rule's substring occurs.
C4_FirstRuleWins ==
  Categorized =>
    \A b \in 1..Len(mockUsageByModule) :
      \A k \in 1..Len(mockUsageByModule[b].entries) :
        LET fp == mockUsageByModule[b].entries[k].filepath
            m == mockUsageByModule[b].module
        IN /\ (m = "unknown") <=> (Matching(fp) = {})
           /\ Matching(fp) # {} =>
                /\ \E r \in Matching(fp) :
                     /\ \A q \in Matching(fp) : r <= q
                     /\ m = Rules[r].module

\* a path with an assessment and an auth marker is in the auth bucket, and
\* a path without any marker is in the unknown bucket
C4_Witness ==
  /\ Categorized
  /\ \E b \in 1..Len(mockUsageByModule) :
       /\ mockUsageByModule[b].module = "auth"
       /\ \E k \in 1..Len(mockUsageByModule[b].entries) :
            /\ Includes(mockUsageByModule[b].entries[k].filepath, "/assessment/")
            /\ Includes(mockUsageByModule[b].entries[k].filepath, "/auth/")
  /\ \E b \in 1..Len(mockUsageByModule) : mockUsageByModule[b].module = "unknown"


\* the exclusion predicates a caller could add: a substring of the path or
\* of the context
ExtraPredicates ==
  { [on |-> "filepath", needle |-> "/auth/"],
    [on |-> "filepath", needle |-> ".js"],
    [on |-> "context", needle |-> "fake"],
    [on |-> "context", needle |-> "mock"] }

\* the line callback with the exclusion predicate extra added to its own
FoldLineWith(res, line, extra) ==
  LET p == ParseLine(line)
  IN IF Includes(IF extra.on = "filepath" THEN p.filepath ELSE p.context,
                 extra.needle)
     THEN res
     ELSE FoldLine(res, line)

\* the raw matches from number i on folded with the added predicate
RECURSIVE FoldRawWith(_, _, _)
FoldRawWith(i, res, extra) ==
  IF i > Len(rawLines) THEN res
  ELSE FoldRawWith(i + 1, FoldLineWith(res, rawLines[i].line, extra), extra)

\* C5: exclusion only filters: every filepath in results is the filepath of
\* a raw match that satisfies no exclusion predicate, every stored context
\* is the context of such a match of that file, and when findMockUsage has
\* returned, the same raw matches folded with one more exclusion predicate
\* give at most as many entries.
C5_ExclusionFilters ==
  script = "mock" =>
    /\ LET P == RawParsed
       IN \A e \in 1..Len(results) :
            \A k \in 1..Len(results[e].matches) :
              /\ ~Excluded(results[e].filepath, results[e].matches[k])
              /\ \E i \in DOMAIN P :
                   P[i] = [filepath |-> results[e].filepath,
                           context |-> results[e].matches[k]]
    /\ pc = "categorize" =>
         \A x \in ExtraPredicates :
           Len(FoldRawWith(1, <<>>, x)) <= Len(results)

\* a match dropped for its path, a match dropped for its context, an entry
\* kept, and an added predicate that removes an entry
C5_Witness ==
  /\ script = "mock" /\ pc = "categorize" /\ Len(results) > 0
  /\ \E i \in 1..Len(rawLines) : Includes(RawParsed[i].filepath, "test")
  /\ \E i \in 1..Len(rawLines) : Includes(RawParsed[i].context, "Database")
  /\ \E x \in ExtraPredicates : Len(FoldRawWith(1, <<>>, x)) < Len(results)

\* lines.forEach over the lines ls
RECURSIVE FoldLines(_, _)
FoldLines(ls, res) ==
  IF Len(ls) = 0 THEN res ELSE FoldLines(Tail(ls), FoldLine(res, Head(ls)))

\* what the search for each configured pattern returns on the tree of this
\* run: the lines of grep's output, or no line when execSync throws
RECURSIVE SearchesFrom(_)
SearchesFrom(q) ==
  IF q > Len(MOCK_PATTERNS) THEN <<>>
  ELSE << [pattern |-> MOCK_PATTERNS[q],
           lines |-> IF GrepStatus(tree, denied, MOCK_PATTERNS[q]) = 0
                     THEN OutputLines(GrepOutput(tree, denied, MOCK_PATTERNS[q]))
                     ELSE <<>>] >>
       \o SearchesFrom(q + 1)

Searches == SearchesFrom(1)

\* findMockUsage with the patterns in the given order, from pattern number i
\* on, the searches returning what G holds
RECURSIVE ScanWith(_, _, _, _)
ScanWith(order, i, res, G) ==
  IF i > Len(order) THEN res
  ELSE LET q == CHOOSE x \in DOMAIN G : G[x].pattern = order[i]
       IN ScanWith(order, i + 1, FoldLines(G[q].lines, res), G)

\* the filepaths of a list of entries, in order
FileOrder(res) == [i \in 1..Len(res) |-> res[i].filepath]

\* the module sections and the files of each, in order
BucketOrder(res) ==
  LET m == categorizeMockUsageByModule(res)
  IN [b \in 1..Len(m) |->
        [module |-> m[b].module, files |-> FileOrder(m[b].entries)]]

\* the files found with the contexts of each, and the files of each module,
\* order left aside
Findings(res) ==
  { [filepath |-> res[i].filepath, contexts |-> Range(res[i].matches)]
    : i \in 1..Len(res) }

Buckets(res) ==
  LET m == BucketOrder(res)
  IN { [module |-> m[b].module, files |-> Range(m[b].files)] : b \in 1..Len(m) }

\* C6 as stated: for every ordering of the patterns the entries, the
\* entries of every bucket and the module sections come in the same order.
C6_OrderIndependent ==
  (script = "mock" /\ pc = "categorize") =>
    LET G == Searches
    IN \A o \in PatternOrders :
         LET r == ScanWith(o, 1, <<>>, G)
         IN /\ FileOrder(r) = FileOrder(results)
            /\ BucketOrder(r) = BucketOrder(results)

\* C6 amended: for every ordering of the patterns findMockUsage returns the
\* same files with the same contexts for each, and every file is in the same
\* module bucket; only the order of entries, of the contexts of a file and
\* of module sections can differ.
C6_SameFindings ==
  (script = "mock" /\ pc = "categorize") =>
    LET G == Searches
    IN \A o \in PatternOrders :
         LET r == ScanWith(o, 1, <<>>, G)
         IN /\ Findings(r) = Findings(results)
            /\ Buckets(r) = Buckets(results)

\* another ordering of the patterns lists the files of this tree in another
\* order
C6_Witness ==
  /\ script = "mock" /\ pc = "categorize" /\ Len(results) >= 2
  /\ \E o \in PatternOrders :
       FileOrder(ScanWith(o, 1, <<>>, Searches)) # FileOrder(results)

\* the first of the raw matches P with index in K that has the filepath,
\* and the first that has the filepath and the context
FirstSeen(P, K, filepath) ==
  CHOOSE i \in K :
    /\ P[i].filepath = filepath
    /\ \A j \in K : P[j].filepath = filepath => i <= j

FirstSeenContext(P, K, filepath, context) ==
  CHOOSE i \in K :
    /\ P[i] = [filepath |-> filepath, context |-> context]
    /\ \A j \in K : P[j] = [filepath |-> filepath, context |-> context] => i <= j

\* the position of an entry in results
Position(entry) == CHOOSE i \in 1..Len(results) : results[i] = entry

\* C7: results lists exactly the files of the raw matches that are not
\* excluded, in the order each was first seen; the contexts of a file are in
\* the order each was first seen; and every bucket lists its entries in the
\* relative order they have in results.
C7_OrderPreserved ==
  script = "mock" =>
    LET P == RawParsed
        K == Kept(P)
    IN /\ { results[e].filepath : e \in 1..Len(results) }
            = { P[i].filepath : i \in K }
       /\ \A d, e \in 1..Len(results) :
            d < e => FirstSeen(P, K, results[d].filepath)
                       < FirstSeen(P, K, results[e].filepath)
       /\ \A e \in 1..Len(results) :
            \A k, l \in 1..Len(results[e].matches) :
              k < l =>
                FirstSeenContext(P, K, results[e].filepath, results[e].matches[k])
                  < FirstSeenContext(P, K, results[e].filepath, results[e].matches[l])
       /\ Categorized =>
            \A b \in 1..Len(mockUsageByModule) :
              \A k, l \in 1..Len(mockUsageByModule[b].entries) :
                k < l => Position(mockUsageByModule[b].entries[k])
                           < Position(mockUsageByModule[b].entries[l])

\* a bucket with two entries, an entry with two contexts, and a file seen
\* again after another file was first seen
C7_Witness ==
  /\ Categorized
  /\ \E b \in 1..Len(mockUsageByModule) : Len(mockUsageByModule[b].entries) >= 2
  /\ \E e \in 1..Len(results) : Len(results[e].matches) >= 2
  /\ LET P == RawParsed
     IN \E i, j, k \in Kept(P) :
          /\ i < j /\ j < k
          /\ P[i].filepath = P[k].filepath
          /\ P[i].filepath # P[j].filepath

\* C8: an unreadable file costs only its own matches: when the scan is over
\* every pattern has been searched, every line of a readable file that grep
\* searches, that contains a pattern and that no exclusion predicate drops
\* is stored in results, and the run goes on to write the report.
C8_ReadablePartKept ==
  ScanDone =>
    /\ pIdx = Len(patterns) + 1
    /\ \A i \in 1..Len(tree) :
         (i # denied /\ GrepIncluded(tree[i].path) /\ ~GrepExcludedDir(tree[i].path)) =>
           \A k \in 1..Len(tree[i].text) :
             ((\E q \in 1..Len(patterns) : Includes(tree[i].text[k], patterns[q]))
               /\ ~Excluded("." \o tree[i].path, tree[i].text[k]))
             => \E e \in 1..Len(results) :
                  /\ results[e].filepath = "." \o tree[i].path
                  /\ tree[i].text[k] \in Range(results[e].matches)
    /\ (pc = "done" /\ ~cwdGone /\ exitCode = 0) => reportFile.state = "written"

\* what a sentence that reports an empty result would say
NoFindingsPhrases ==
  { "no findings", "no mock", "no files", "no matches", "no usage",
    "nothing found", "not found", "none found", "0 files" }

\* C9: when every search ended with the no-match status, the run exits
\* with 0 and the written report has the title and overview headings, no
\* module section, and a sentence stating that there are no findings.
C9_EmptyReport ==
  (script = "mock" /\ pc = "done" /\ reportFile.state = "written"
     /\ rawLines = <<>> /\ errors = <<>>) =>
    /\ exitCode = 0
    /\ Chunk("h1", "Workstream Mock Replacement Report") \in Range(reportFile.content)
    /\ Chunk("h2", "Overview") \in Range(reportFile.content)
    /\ \A c \in Range(reportFile.content) : c.kind # "h3"
    /\ \E c \in Range(reportFile.content) :
         \E ph \in NoFindingsPhrases : Includes(ToLowerCase(c.text), ph)

\* the list the scan of this run's script iterates
ScanList ==
  IF script = "mock" THEN patterns
  ELSE IF script = "data" THEN SCHEMAS
  ELSE MODULES

\* the report main renders from the result of the finished scan
FinalReport ==
  IF script = "mock"
  THEN RenderMockReport(categorizeMockUsageByModule(results))
  ELSE IF script = "data" THEN RenderDataReport(directAccessResults)
  ELSE RenderRepoReport(directAccessResults)

\* C10: in each of the three scripts fs.writeFileSync is called at most
\* once, as the last step of main, when the scan has gone through its whole
\* list and the report is rendered from its final result; the file is
\* touched by that call only, so a run that ends in the catch of main
\* without having reached the write has written nothing.
C10_NoPartialReport ==
  /\ writes <= 1
  /\ reportFile # NoFile => writes = 1
  /\ writes = 1 =>
       /\ pc = "done"
       /\ pIdx = Len(ScanList) + 1 /\ lines = <<>>
       /\ reportContent = FinalReport
  /\ (pc = "done" /\ exitCode = 1 /\ writes = 0) => reportFile = NoFile
  /\ (pc = "done" /\ exitCode = 0) =>
       reportFile = [state |-> "written", content |-> FinalReport]

\* a run of the mock script with findings that ends in the catch of main
\* before the write
C10_Witness ==
  /\ pc = "done" /\ exitCode = 1 /\ writes = 0
  /\ script = "mock" /\ Len(results) > 0 /\ Len(mockUsageByModule) > 0

\* the place of a pattern in the list this run iterates
PatternIndex(pattern) == CHOOSE q \in 1..Len(patterns) : patterns[q] = pattern

\* the lines the line callback receives for pattern number q
CallbackLines(q) ==
  IF GrepStatus(tree, denied, patterns[q]) = 0
  THEN OutputLines(GrepOutput(tree, denied, patterns[q]))
  ELSE <<>>

\* the lines processed so far that the search for pattern number q found
ProcessedOf(q) ==
  SelectSeq(rawLines, LAMBDA r : r.pattern = patterns[q])

\* C11 as stated: no raw match is filtered, grouped or deduplicated before
\* the scans of all patterns have completed, that is before the last
\* pattern's grep has returned.
C11_ScansBeforeAggregation ==
  (script = "mock" /\ rawLines # <<>>) =>
    \/ pIdx > Len(patterns)
    \/ pIdx = Len(patterns) /\ pc = "fold"

\* C11 amended: the patterns are handled strictly one after another, each
\* one's scan followed by the aggregation of its own matches: the lines
\* processed so far come in pattern order and none is of a pattern after
\* the current one, unprocessed lines exist only inside the current
\* pattern's callback, when the next scan is about to start (or all are
\* over) every line of the previous pattern's output has been processed,
\* and classification starts only after the last pattern.
C11_PatternAtATime ==
  script = "mock" =>
    /\ pIdx \in 1..(Len(patterns) + 1)
    /\ \A i \in 1..Len(rawLines) :
         /\ rawLines[i].pattern \in Range(patterns)
         /\ PatternIndex(rawLines[i].pattern) <= pIdx
         /\ \A j \in 1..Len(rawLines) :
              i < j => PatternIndex(rawLines[i].pattern)
                         <= PatternIndex(rawLines[j].pattern)
    /\ lines # <<>> => pc = "fold" /\ pIdx <= Len(patterns)
    /\ (pc \in {"scan", "categorize"} /\ pIdx > 1) =>
         ProcessedOf(pIdx - 1) = RawMatches(CallbackLines(pIdx - 1), patterns[pIdx - 1])
    /\ pc = "fold" =>
         ProcessedOf(pIdx) \o RawMatches(lines, patterns[pIdx])
           = RawMatches(CallbackLines(pIdx), patterns[pIdx])
    /\ pc \notin {"scan", "fold"} => pIdx = Len(patterns) + 1

\* matches of one pattern have been aggregated, with entries stored, and
\* the scan for a later pattern is about to start
C11_Witness ==
  /\ script = "mock" /\ pc = "scan"
  /\ pIdx > 1 /\ pIdx <= Len(patterns)
  /\ ProcessedOf(pIdx - 1) # <<>> /\ Len(results) > 0
  /\ GrepStatus(tree, denied, patterns[pIdx]) = 0

\* the first chunk after number i that is a heading of level 1 to 3
SectionEnd(c, i) ==
  IF \E j \in (i + 1)..Len(c) : c[j].kind \in {"h1", "h2", "h3"}
  THEN CHOOSE j \in (i + 1)..Len(c) :
         /\ c[j].kind \in {"h1", "h2", "h3"}
         /\ \A k \in (i + 1)..(j - 1) : c[k].kind \notin {"h1", "h2", "h3"}
  ELSE Len(c) + 1

\* the level 3 sections of a report from chunk i on: heading and body
RECURSIVE SectionsFrom(_, _)
SectionsFrom(c, i) ==
  IF i > Len(c) THEN <<>>
  ELSE IF c[i].kind = "h3"
  THEN << [heading |-> c[i].text,
           body |-> SubSeq(c, i + 1, SectionEnd(c, i) - 1)] >>
       \o SectionsFrom(c, i + 1)
  ELSE SectionsFrom(c, i + 1)

\* the texts of the chunks of one kind, in order
RECURSIVE TextsOf(_, _)
TextsOf(c, kind) ==
  IF Len(c) = 0 THEN <<>>
  ELSE (IF Head(c).kind = kind THEN << Head(c).text >> ELSE <<>>)
       \o TextsOf(Tail(c), kind)

\* the first stored context of every entry of res with a filepath of fs
RECURSIVE FirstContexts(_, _)
FirstContexts(res, fs) ==
  IF Len(fs) = 0 THEN <<>>
  ELSE LET e == CHOOSE x \in 1..Len(res) : res[x].filepath = Head(fs)
       IN << res[e].matches[1] >> \o FirstContexts(res, Tail(fs))

\* the mock report has one section per module that results has a file of,
\* in first-seen order, and each lists that module's files, at least one,
\* each with its first stored context
MockSectionsOk ==
  LET secs == SectionsFrom(reportContent, 1)
      bo == BucketOrder(results)
  IN /\ Len(secs) = Len(bo)
     /\ \A b \in 1..Len(secs) :
          /\ secs[b].heading = Capitalize(bo[b].module) \o " Module"
          /\ TextsOf(secs[b].body, "h4") = bo[b].files
          /\ Len(bo[b].files) >= 1
          /\ TextsOf(secs[b].body, "code") = FirstContexts(results, bo[b].files)

\* whether the scan found something for a configured module
HasFindings(r) == r.moduleDir # "null" /\ Len(r.files) > 0

\* C12 as stated: one section per non-empty bucket in the mock report, and
\* in the repository pattern report no section for a configured module
\* without findings.
C12_SectionPerNonEmptyBucket ==
  reportContent # <<>> =>
    /\ script = "mock" => MockSectionsOk
    /\ script = "repo" =>
         \A i \in 1..Len(directAccessResults) :
           ~HasFindings(directAccessResults[i]) =>
             \A c \in Range(reportContent) :
               ~(c.kind = "h3" /\ c.text = Capitalize(directAccessResults[i].module) \o " Module")

\* C12 amended: the mock report has exactly one section per non-empty
\* bucket, each listing at least one file with its first stored context;
\* the data access report has one section per schema whose search selected
\* a line, and every table section in it lists at least one file; the
\* repository pattern report has exactly one section for every configured
\* module, in the order of MODULES, and a module without findings is
\* reported as not found or as having no direct access.
C12_Sections ==
  reportContent # <<>> =>
    LET secs == SectionsFrom(reportContent, 1)
    IN /\ script = "mock" => MockSectionsOk
       /\ script = "data" =>
            /\ Len(secs) = Len(directAccessResults)
            /\ \A b \in 1..Len(secs) :
                 /\ secs[b].heading = directAccessResults[b].schema \o " Schema"
                 /\ \E i \in 1..Len(rawLines) :
                      rawLines[i].pattern = directAccessResults[b].schema
                 /\ \A t \in 1..Len(directAccessResults[b].tables) :
                      Len(directAccessResults[b].tables[t].files) >= 1
                 /\ TextsOf(secs[b].body, "h4") =
                      [t \in 1..Len(directAccessResults[b].tables) |->
                         directAccessResults[b].tables[t].table \o " Table"]
       /\ script = "repo" =>
            /\ Len(secs) = Len(MODULES)
            /\ \A b \in 1..Len(secs) :
                 LET r == directAccessResults[b]
                 IN /\ r.module = MODULES[b]
                    /\ secs[b].heading = Capitalize(MODULES[b]) \o " Module"
                    /\ r.moduleDir = "null" =>
                         secs[b].body = << Chunk("li", "Module directory not found") >>
                    /\ (r.moduleDir # "null" /\ ~HasFindings(r)) =>
                         secs[b].body =
                           << Chunk("li", "Module directory: " \o r.moduleDir),
                              Chunk("li", "Has direct database access: No") >>
                    /\ HasFindings(r) =>
                         Chunk("li", "Has direct database access: Yes")
                           \in Range(secs[b].body)

\* a rendered repository pattern report with a section for a module whose
\* directory is missing, one for a module without a matching file and one
\* for a module with files
C12_Witness ==
  /\ script = "repo" /\ reportContent # <<>>
  /\ \E i, j, k \in 1..Len(directAccessResults) :
       /\ directAccessResults[i].moduleDir = "null"
       /\ directAccessResults[j].moduleDir # "null"
       /\ ~HasFindings(directAccessResults[j])
       /\ HasFindings(directAccessResults[k])
  /\ Len(SectionsFrom(reportContent, 1)) = Len(MODULES)

\* whether a line of text qualifies table with schema in a from( call
ReferencesPair(text, schema, table) ==
  \/ Includes(text, "from('" \o schema \o "." \o table)
  \/ Includes(text, "from(\"" \o schema \o "." \o table)

\* C13: every file path stored under a schema and a table is the path of a
\* file of the tree with a line that references that schema.table pair.
C13_PairReferenced ==
  script = "data" =>
    \A s \in 1..Len(directAccessResults) :
      \A t \in 1..Len(directAccessResults[s].tables) :
        \A f \in 1..Len(directAccessResults[s].tables[t].files) :
          \E i \in 1..Len(tree) :
            /\ "." \o tree[i].path = directAccessResults[s].tables[t].files[f]
            /\ \E k \in 1..Len(tree[i].text) :
                 ReferencesPair(tree[i].text[k],
                                directAccessResults[s].schema,
                                directAccessResults[s].tables[t].table)

MutatingCalls == SelectSeq(calls, LAMBDA c : c.op \in {"edit", "create"})

\* C15: for each label at most one mutating call is issued, an edit only
\* after a successful existence check and a create only after a failed
\* one, also when the edit fails; every label of ALL_LABELS is processed,
\* in list order, whatever failed before.
C15_CreateOrUpdate ==
  script = "labels" =>
    /\ Len(MutatingCalls) <= 1
    /\ \A i \in 1..Len(calls) :
         /\ calls[i].op = "edit" => calls[1] = Call("get", calls[i].label, TRUE)
         /\ calls[i].op = "create" =>
              calls[1] = Call("get", calls[i].label, FALSE)
    /\ processed = SubSeq(ALL_LABELS, 1, Len(processed))
    /\ (pc = "done" /\ exitCode = 0) => processed = ALL_LABELS

====
